---------------------------- MODULE Spec2Model ----------------------------
(***************************************************************************)
(* Model of agent_utils.py: the RAG agent builder (RAGAgentBuilder), its   *)
(* cache (ParamCache), the parameter schema (RAGParams), language-model    *)
(* resolution (_resolve_llm) and agent assembly (load_agent).              *)
(*                                                                         *)
(* Conventions.                                                            *)
(*  - A Python str is a sequence of chunks; a chunk is a run of characters *)
(*    without ':' or the single character ":".  "openai:gpt-4" is          *)
(*    <<"openai", ":", "gpt-4">>.  Digits of a numeric string are one      *)
(*    chunk per character: "12" is <<"1", "2">>.                           *)
(*  - Optional[T] is a sequence of length at most one: None is <<>>,       *)
(*    a value x is <<x>>.                                                  *)
(*  - A Python value handed to pydantic is a tagged record, see Value.     *)
(***************************************************************************)
EXTENDS Integers, Sequences, FiniteSets, TLC

VARIABLES
    system_prompt,   \* ParamCache.system_prompt : Optional[str]
    file_paths,      \* ParamCache.file_paths    : List[str]
    docs,            \* ParamCache.docs          : List[Document]
    tools,           \* ParamCache.tools         : List
    rag_params,      \* ParamCache.rag_params    : RAGParams
    agent,           \* ParamCache.agent         : Optional[agent handle]
    last,            \* the most recent call: operation, arguments, outcome
    builder_llm,     \* builder_config.BUILDER_LLM, the meta-agent's model
    memo,            \* st.cache_resource's entry for load_meta_agent_and_tools
    held,            \* per user session: the builder its call returned
    created,         \* how many RAGAgentBuilder objects were constructed
    caller           \* the session that made the most recent call

\* the state of the hosting layer: the memoized builder and who holds it
hosting == <<builder_llm, memo, held, created, caller>>

vars == <<system_prompt, file_paths, docs, tools, rag_params, agent, last, hosting>>

cache == <<system_prompt, file_paths, docs, tools, rag_params, agent>>

None == <<>>

Some(x) == <<x>>

-----------------------------------------------------------------------------
(* Bounds of the model *)

\* largest number of keys in one set_rag_params update map
MaxOverrides == 2

\* largest number of add_web_tool calls in one behaviour
MaxWebToolCalls == 1

\* largest number of RAGAgentBuilder objects load_meta_agent_and_tools
\* constructs in one behaviour
MaxConstructions == 2

-----------------------------------------------------------------------------
(* Python values as pydantic sees them *)

BoolV(x) == [t |-> "bool", b |-> x, i |-> 0, s |-> <<>>]

IntV(n) == [t |-> "int", b |-> FALSE, i |-> n, s |-> <<>>]

StrV(q) == [t |-> "str", b |-> FALSE, i |-> 0, s |-> q]

\* result of validating one field: ok with the coerced value, or an error
Ok(v) == [ok |-> TRUE, v |-> v]

Err == [ok |-> FALSE, v |-> IntV(0)]

Digits == <<"0", "1", "2", "3", "4", "5", "6", "7", "8", "9">>

IsDigit(c) == \E d \in 1..10 : Digits[d] = c

DigitVal(c) == (CHOOSE d \in 1..10 : Digits[d] = c) - 1

RECURSIVE DigitsVal(_)
DigitsVal(q) ==
    IF q = <<>> THEN 0
    ELSE 10 * DigitsVal(SubSeq(q, 1, Len(q) - 1)) + DigitVal(q[Len(q)])

AllDigits(q) == q # <<>> /\ \A n \in 1..Len(q) : IsDigit(q[n])

\* int(str): an optional sign followed by decimal digits
IsIntStr(q) ==
    \/ AllDigits(q)
    \/ Len(q) > 1 /\ q[1] \in {"-", "+"} /\ AllDigits(Tail(q))

ParseInt(q) ==
    IF q[1] = "-" THEN 0 - DigitsVal(Tail(q))
    ELSE IF q[1] = "+" THEN DigitsVal(Tail(q))
    ELSE DigitsVal(q)

RECURSIVE NatToStr(_)
NatToStr(n) ==
    IF n < 10 THEN <<Digits[n + 1]>>
    ELSE NatToStr(n \div 10) \o <<Digits[(n % 10) + 1]>>

\* str(int)
IntToStr(n) == IF n < 0 THEN <<"-">> \o NatToStr(0 - n) ELSE NatToStr(n)


-----------------------------------------------------------------------------
(* RAGParams: the parameter schema and its validation *)

DefaultTopK == 2

DefaultChunkSize == 1024

DefaultEmbedModel == <<"default">>

DefaultLLM == <<"gpt-4-1106-preview">>

\* the declared fields, in declaration order
FieldNames == <<"include_summarization", "top_k", "chunk_size", "embed_model", "llm">>

Fields == {FieldNames[n] : n \in 1..Len(FieldNames)}

RAGParamsDefaults ==
    [include_summarization |-> FALSE,
     top_k                 |-> DefaultTopK,
     chunk_size            |-> DefaultChunkSize,
     embed_model           |-> DefaultEmbedModel,
     llm                   |-> DefaultLLM]

BoolTrueStrs == {<<"1">>, <<"on">>, <<"t">>, <<"true">>, <<"y">>, <<"yes">>}

BoolFalseStrs == {<<"0">>, <<"off">>, <<"f">>, <<"false">>, <<"n">>, <<"no">>}

\* pydantic's validator of a bool field
BoolValidator(v) ==
    CASE v.t = "bool" -> Ok(v)
      [] v.t = "int"  -> IF v.i = 1 THEN Ok(BoolV(TRUE))
                         ELSE IF v.i = 0 THEN Ok(BoolV(FALSE))
                         ELSE Err
      [] v.t = "str"  -> IF v.s \in BoolTrueStrs THEN Ok(BoolV(TRUE))
                         ELSE IF v.s \in BoolFalseStrs THEN Ok(BoolV(FALSE))
                         ELSE Err

\* pydantic's validator of an int field: an int is kept, anything else goes
\* through int(v)
IntValidator(v) ==
    CASE v.t = "int"  -> Ok(v)
      [] v.t = "bool" -> Ok(IntV(IF v.b THEN 1 ELSE 0))
      [] v.t = "str"  -> IF IsIntStr(v.s) THEN Ok(IntV(ParseInt(v.s))) ELSE Err

\* pydantic's validator of a str field: a str is kept, a number goes
\* through str(v)
StrValidator(v) ==
    CASE v.t = "str"  -> Ok(v)
      [] v.t = "int"  -> Ok(StrV(IntToStr(v.i)))
      [] v.t = "bool" -> Ok(StrV(IF v.b THEN <<"True">> ELSE <<"False">>))

FieldValidator(k, v) ==
    CASE k = "include_summarization" -> BoolValidator(v)
      [] k \in {"top_k", "chunk_size"} -> IntValidator(v)
      [] k \in {"embed_model", "llm"}  -> StrValidator(v)

\* RAGParams.dict(): the plain mapping of a parameter record
ParamsDict(p) ==
    [k \in Fields |->
        CASE k = "include_summarization" -> BoolV(p.include_summarization)
          [] k = "top_k"                 -> IntV(p.top_k)
          [] k = "chunk_size"            -> IntV(p.chunk_size)
          [] k = "embed_model"           -> StrV(p.embed_model)
          [] k = "llm"                   -> StrV(p.llm)]

\* the value a field takes when RAGParams(**d) is built: the validated
\* entry of d when d has the key, the field's default otherwise
FieldInput(d, k) == IF k \in DOMAIN d THEN d[k] ELSE ParamsDict(RAGParamsDefaults)[k]

\* RAGParams(**d) raises ValidationError iff some declared field fails its
\* validator; keys of d that are no declared field are ignored (the model
\* class sets no Config.extra)
RAGParamsValid(d) == \A k \in Fields : FieldValidator(k, FieldInput(d, k)).ok

\* RAGParams(**d), for a d that validates
RAGParamsNew(d) ==
    [include_summarization |-> FieldValidator("include_summarization", FieldInput(d, "include_summarization")).v.b,
     top_k                 |-> FieldValidator("top_k", FieldInput(d, "top_k")).v.i,
     chunk_size            |-> FieldValidator("chunk_size", FieldInput(d, "chunk_size")).v.i,
     embed_model           |-> FieldValidator("embed_model", FieldInput(d, "embed_model")).v.s,
     llm                   |-> FieldValidator("llm", FieldInput(d, "llm")).v.s]

\* a plausible slip: the record is rebuilt from the update alone
UpdatedDictFromDefaults(p, overrides) == overrides

\* new_dict = rag_params.dict(); new_dict.update(overrides)
UpdatedDict(p, overrides) ==
    [k \in Fields \cup DOMAIN overrides |->
        IF k \in DOMAIN overrides THEN overrides[k] ELSE ParamsDict(p)[k]]

-----------------------------------------------------------------------------
(* _resolve_llm: language-model resolution *)

HasColon(q) == \E n \in 1..Len(q) : q[n] = ":"

FirstColon(q) == CHOOSE n \in 1..Len(q) : q[n] = ":" /\ \A m \in 1..(n - 1) : q[m] # ":"

\* str.split(":"): the pieces between the colons, empty pieces included
RECURSIVE Split(_)
Split(q) ==
    IF ~HasColon(q) THEN <<q>>
    ELSE <<SubSeq(q, 1, FirstColon(q) - 1)>> \o Split(SubSeq(q, FirstColon(q) + 1, Len(q)))

\* str.split(":", 1)[1], as the library's resolve_llm takes the local model path
AfterFirstColon(q) == SubSeq(q, FirstColon(q) + 1, Len(q))

LLM(cls, model) == [cls |-> cls, model |-> model]

Resolved(llm) == [ok |-> TRUE, v |-> llm]

NotRecognized == [ok |-> FALSE, v |-> LLM("", <<>>)]

\* a plausible slip: an unknown prefix falls back to the default provider
ResolveLLMLenient(llm) ==
    LET tokens == Split(llm) IN
    IF Len(tokens) = 1 THEN Resolved(LLM("OpenAI", llm))
    ELSE IF tokens[1] = <<"local">> THEN Resolved(LLM("LlamaCPP", AfterFirstColon(llm)))
    ELSE IF tokens[1] = <<"openai">> THEN Resolved(LLM("OpenAI", tokens[2]))
    ELSE IF tokens[1] = <<"anthropic">> THEN Resolved(LLM("Anthropic", tokens[2]))
    ELSE IF tokens[1] = <<"replicate">> THEN Resolved(LLM("Replicate", tokens[2]))
    ELSE Resolved(LLM("OpenAI", tokens[2]))

\* _resolve_llm(llm); Python's tokens[0], tokens[1] are tokens[1], tokens[2]
\* here.  The credential lookups in st.secrets are taken to succeed.
ResolveLLM(llm) ==
    LET tokens == Split(llm) IN
    IF Len(tokens) = 1 THEN Resolved(LLM("OpenAI", llm))
    ELSE IF tokens[1] = <<"local">> THEN Resolved(LLM("LlamaCPP", AfterFirstColon(llm)))
    ELSE IF tokens[1] = <<"openai">> THEN Resolved(LLM("OpenAI", tokens[2]))
    ELSE IF tokens[1] = <<"anthropic">> THEN Resolved(LLM("Anthropic", tokens[2]))
    ELSE IF tokens[1] = <<"replicate">> THEN Resolved(LLM("Replicate", tokens[2]))
    ELSE NotRecognized

-----------------------------------------------------------------------------
(* load_agent: the agent assembly strategy *)

\* is_function_calling_model(model): the library's lookup on the model
\* identifier (chat models that are not the 0314/0301 snapshots)
FunctionCallingModels == {<<"gpt-4-1106-preview">>, <<"gpt-4">>, <<"gpt-3.5-turbo">>}

IsFunctionCallingModel(model) == model \in FunctionCallingModels

\* a plausible slip: the strategy test looks at the model identifier only
UsesOpenAIAgentByModelOnly(llm) == IsFunctionCallingModel(llm.model)

\* isinstance(llm, OpenAI) and is_function_calling_model(llm.model)
UsesOpenAIAgent(llm) == llm.cls = "OpenAI" /\ IsFunctionCallingModel(llm.model)

\* OpenAIAgent.from_tools(tools, llm, system_prompt); prompt is the value
\* of the cache's Optional[str] field
OpenAIAgent(all_tools, llm, prompt) ==
    [cls           |-> "OpenAIAgent",
     tools         |-> all_tools,
     llm           |-> Some(llm),
     system_prompt |-> prompt,
     retriever     |-> None]

\* CondensePlusContextChatEngine.from_defaults(retriever): neither the tools,
\* nor the resolved llm, nor the system prompt are handed over
CondensePlusContextChatEngine(retriever) ==
    [cls           |-> "CondensePlusContextChatEngine",
     tools         |-> <<>>,
     llm           |-> None,
     system_prompt |-> None,
     retriever     |-> Some(retriever)]

Retriever(index, top_k) == [index |-> index, similarity_top_k |-> Some(top_k)]

Built(a) == [ok |-> TRUE, v |-> a]

MustPassVectorIndex == [ok |-> FALSE, v |-> CondensePlusContextChatEngine(<<>>)]

\* a plausible slip: without a vector index the tool-calling agent is built
LoadAgentFallingBack(all_tools, llm, prompt, extra_kwargs) ==
    IF UsesOpenAIAgent(llm) THEN Built(OpenAIAgent(all_tools, llm, prompt))
    ELSE IF "vector_index" \notin DOMAIN extra_kwargs
    THEN Built(OpenAIAgent(all_tools, llm, prompt))
    ELSE Built(CondensePlusContextChatEngine(
                    Retriever(extra_kwargs.vector_index, extra_kwargs.rag_params.top_k)))

\* a plausible slip: the chat engine path hands tools and prompt over too
LoadAgentKeepingTools(all_tools, llm, prompt, extra_kwargs) ==
    IF UsesOpenAIAgent(llm) THEN Built(OpenAIAgent(all_tools, llm, prompt))
    ELSE IF "vector_index" \notin DOMAIN extra_kwargs THEN MustPassVectorIndex
    ELSE Built([CondensePlusContextChatEngine(
                    Retriever(extra_kwargs.vector_index, extra_kwargs.rag_params.top_k))
                EXCEPT !.tools = all_tools, !.system_prompt = prompt])

\* load_agent(tools, llm, system_prompt, extra_kwargs); extra_kwargs is a
\* record, the empty one when the caller passes none
LoadAgent(all_tools, llm, prompt, extra_kwargs) ==
    IF UsesOpenAIAgent(llm) THEN Built(OpenAIAgent(all_tools, llm, prompt))
    ELSE IF "vector_index" \notin DOMAIN extra_kwargs THEN MustPassVectorIndex
    ELSE Built(CondensePlusContextChatEngine(
                    Retriever(extra_kwargs.vector_index, extra_kwargs.rag_params.top_k)))

-----------------------------------------------------------------------------
(* The external collaborators, as far as the builder's state shows them *)

\* the documents a source yields: one Document per part of the source
PartsOf(source) == IF source = "b.pdf" THEN 2 ELSE 1

Document(source, part) == [source |-> source, part |-> part]

RECURSIVE LoadSources(_)
LoadSources(sources) ==
    IF sources = <<>> THEN <<>>
    ELSE [n \in 1..PartsOf(Head(sources)) |-> Document(Head(sources), n)]
         \o LoadSources(Tail(sources))

\* MetaphorToolSpec(...).to_tool_list()
MetaphorToolList ==
    <<[name |-> "search", query_engine |-> None],
      [name |-> "retrieve_documents", query_engine |-> None]>>

VectorStoreIndex(documents, chunk_size, llm, embed_model) ==
    [cls |-> "VectorStoreIndex", docs |-> documents, chunk_size |-> chunk_size,
     llm |-> llm, embed_model |-> embed_model]

SummaryIndex(documents, chunk_size, llm, embed_model) ==
    [cls |-> "SummaryIndex", docs |-> documents, chunk_size |-> chunk_size,
     llm |-> llm, embed_model |-> embed_model]

VectorTool(index, top_k) ==
    [name |-> "vector_tool",
     query_engine |-> Some([index |-> index, similarity_top_k |-> Some(top_k)])]

SummaryTool(index) ==
    [name |-> "summary_tool",
     query_engine |-> Some([index |-> index, similarity_top_k |-> None])]

-----------------------------------------------------------------------------
(* The record of the most recent call *)

SoftFailure == "System prompt not set yet. Please set system prompt first."

\* op: the operation; status: "ok" (returned its success string), "soft"
\* (returned the soft-failure string) or "raised"; exc: what was raised;
\* ret: the string returned; the remaining fields are the arguments and
\* results the operation has; all_tools is the list create_agent assembled
Call(op, status, exc, ret) ==
    [op |-> op, status |-> status, exc |-> exc, ret |-> ret,
     overrides |-> <<>>, mapping |-> <<>>, text |-> None,
     file_names |-> None, urls |-> None, loader |-> "none", llm |-> None,
     all_tools |-> <<>>]

Raised(op, exc) == Call(op, "raised", exc, "")

-----------------------------------------------------------------------------
(* RAGAgentBuilder *)

\* the user sessions of the hosting process
Sessions == {"s1", "s2"}

NoSession == "none"

\* ParamCache(): the cache a new RAGAgentBuilder starts with
EmptyCache ==
    /\ system_prompt = None
    /\ file_paths = <<>>
    /\ docs = <<>>
    /\ tools = <<>>
    /\ rag_params = RAGParamsDefaults
    /\ agent = None

\* nothing memoized, no session holds a builder
NothingHosted ==
    /\ memo = None
    /\ held = [s \in Sessions |-> None]
    /\ created = 0
    /\ caller = NoSession

\* a builder constructed directly, outside any hosting
Init ==
    /\ EmptyCache
    /\ last = Call("init", "ok", "", "")
    /\ builder_llm = LLM("OpenAI", DefaultLLM)
    /\ NothingHosted

\* an operation called on the builder directly
Direct(operation) == operation /\ UNCHANGED hosting

\* a plausible slip: a prompt already set is kept
StoredPromptKeepingFirst(old, text) == IF old = None THEN Some(text) ELSE old

\* self._cache.system_prompt = response.message.content
StoredPrompt(old, text) == Some(text)

\* create_system_prompt(task): chat_ok is whether the builder model's chat
\* call returns; text is the content it returns
CreateSystemPrompt(task, chat_ok, text) ==
    IF ~chat_ok
    THEN /\ last' = Raised("create_system_prompt", "ExternalError")
         /\ UNCHANGED cache
    ELSE /\ system_prompt' = StoredPrompt(system_prompt, text)
         /\ last' = [Call("create_system_prompt", "ok", "", "System prompt created: ")
                        EXCEPT !.text = Some(text)]
         /\ UNCHANGED <<file_paths, docs, tools, rag_params, agent>>

\* a plausible slip: the loaded documents are appended to the cache's
StoreLoadedAppending(old, new) == old \o new

\* self._cache.docs = docs; self._cache.file_paths = file_paths
StoreLoaded(old, new) == new

MustSpecifyEither == "ValueError: Must specify either file_names or urls."

MustSpecifyOnlyOne == "ValueError: Must specify only one of file_names or urls."

\* a plausible slip: the check for both arguments is missing
ArgumentErrorNoBothCheck(file_names, urls) ==
    IF file_names = None /\ urls = None THEN MustSpecifyEither
    ELSE ""

\* the argument checks of load_data: what is raised, "" when nothing is
ArgumentError(file_names, urls) ==
    IF file_names = None /\ urls = None THEN MustSpecifyEither
    ELSE IF file_names # None /\ urls # None THEN MustSpecifyOnlyOne
    ELSE ""

\* a plausible slip: the paths are stored before the reader is called
PathsStoredBeforeLoading(old, sources) == sources

\* the cache's file_paths when the reader raises: both cache fields are
\* assigned only after the reader has returned
PathsOnLoaderError(old, sources) == old

\* load_data(file_names, urls): both are Optional[List[str]]; load_ok is
\* whether the chosen reader returns
LoadData(file_names, urls, load_ok) ==
    LET called == [Call("load_data", "ok", "", "Data loaded successfully.")
                      EXCEPT !.file_names = file_names, !.urls = urls]
    IN
    IF ArgumentError(file_names, urls) # ""
    THEN /\ last' = [called EXCEPT !.status = "raised", !.ret = "",
                        !.exc = ArgumentError(file_names, urls)]
         /\ UNCHANGED cache
    ELSE LET loader  == IF file_names # None THEN "SimpleDirectoryReader"
                        ELSE "SimpleWebPageReader"
             sources == IF file_names # None THEN file_names[1] ELSE urls[1]
         IN
         IF ~load_ok
         THEN /\ last' = [called EXCEPT !.status = "raised", !.ret = "",
                             !.exc = "ExternalError", !.loader = loader]
              /\ file_paths' = PathsOnLoaderError(file_paths, sources)
              /\ UNCHANGED <<system_prompt, docs, tools, rag_params, agent>>
         ELSE /\ docs' = StoreLoaded(docs, LoadSources(sources))
              /\ file_paths' = StoreLoaded(file_paths, sources)
              /\ last' = [called EXCEPT !.loader = loader]
              /\ UNCHANGED <<system_prompt, tools, rag_params, agent>>

\* add_web_tool(): env_ok is whether METAPHOR_API_KEY is in the environment
AddWebTool(env_ok) ==
    /\ Len(tools) < MaxWebToolCalls * Len(MetaphorToolList)
    /\ IF ~env_ok
       THEN /\ last' = Raised("add_web_tool", "KeyError")
            /\ UNCHANGED cache
       ELSE /\ tools' = tools \o MetaphorToolList
            /\ last' = Call("add_web_tool", "ok", "", "Web tool added successfully.")
            /\ UNCHANGED <<system_prompt, file_paths, docs, rag_params, agent>>

\* get_rag_params()
GetRagParams ==
    /\ last' = [Call("get_rag_params", "ok", "", "") EXCEPT !.mapping = ParamsDict(rag_params)]
    /\ UNCHANGED cache

\* a plausible slip: the mapping handed out is the record's own storage
ParamsSharedWithCaller(p, k, v) ==
    IF k = "top_k" /\ v.t = "int" THEN [p EXCEPT !.top_k = v.i] ELSE p

\* what an assignment to the returned mapping does to the cache's
\* parameters: rag_params.dict() builds a new dict of plain values
ParamsAfterCallerMutation(p, k, v) == p

\* the caller of get_rag_params assigns mapping[k] = v on what it got back
CallerMutation(k, v) ==
    /\ last.op \in {"get_rag_params", "caller_mutation"}
    /\ last' = [last EXCEPT !.op = "caller_mutation", !.mapping = (k :> v) @@ last.mapping]
    /\ rag_params' = ParamsAfterCallerMutation(rag_params, k, v)
    /\ UNCHANGED <<system_prompt, file_paths, docs, tools, agent>>

\* set_rag_params(**overrides)
SetRagParams(overrides) ==
    LET new_dict == UpdatedDict(rag_params, overrides)
        called   == [Call("set_rag_params", "ok", "", "RAG parameters set successfully.")
                        EXCEPT !.overrides = overrides]
    IN
    IF ~RAGParamsValid(new_dict)
    THEN /\ last' = [called EXCEPT !.status = "raised", !.ret = "", !.exc = "ValidationError"]
         /\ UNCHANGED cache
    ELSE /\ rag_params' = RAGParamsNew(new_dict)
         /\ last' = called
         /\ UNCHANGED <<system_prompt, file_paths, docs, tools, agent>>

\* a plausible slip: the agent is built whether or not a prompt is set
PromptNotSetIgnored(prompt) == FALSE

\* self._cache.system_prompt is None
PromptNotSet(prompt) == prompt = None

\* a plausible slip: the summarization tool is built whatever the toggle
\* says, after the extra tools
AllToolsSummaryLast(rp, documents, llm, extra) ==
    <<VectorTool(VectorStoreIndex(documents, rp.chunk_size, llm, rp.embed_model), rp.top_k)>>
    \o extra
    \o <<SummaryTool(SummaryIndex(documents, rp.chunk_size, llm, rp.embed_model))>>

\* the tool list create_agent assembles
AllTools(rp, documents, llm, extra) ==
    <<VectorTool(VectorStoreIndex(documents, rp.chunk_size, llm, rp.embed_model), rp.top_k)>>
    \o (IF rp.include_summarization
        THEN <<SummaryTool(SummaryIndex(documents, rp.chunk_size, llm, rp.embed_model))>>
        ELSE <<>>)
    \o extra

\* a plausible slip: the tool list is assembled in the cache's own list
ToolsAliasedByAssembly(extra, assembled) == assembled

\* the cache's tools after all_tools.extend(self._cache.tools): all_tools is
\* a list of its own, the cache's list is only read
ToolsAfterAssembly(extra, assembled) == extra

\* create_agent(): ext is how the external calls end: "ok", "embed_error"
\* (resolve_embed_model raises) or "index_error" (building an index raises)
CreateAgent(ext) ==
    LET rp       == rag_params
        resolved == ResolveLLM(rp.llm)
        llm      == resolved.v
        index    == VectorStoreIndex(docs, rp.chunk_size, llm, rp.embed_model)
        all_tools == AllTools(rp, docs, llm, tools)
        tools_after == ToolsAfterAssembly(tools, all_tools)
        called   == Call("create_agent", "ok", "", "Agent created successfully.")
    IN
    IF ext = "embed_error"
    THEN /\ last' = Raised("create_agent", "ExternalError")
         /\ UNCHANGED cache
    ELSE IF ~resolved.ok
    THEN /\ last' = Raised("create_agent", "ValueError: LLM not recognized.")
         /\ UNCHANGED cache
    ELSE IF ext = "index_error"
    THEN /\ last' = [Raised("create_agent", "ExternalError") EXCEPT !.llm = Some(llm)]
         /\ UNCHANGED cache
    ELSE IF PromptNotSet(system_prompt)
    THEN /\ last' = [Call("create_agent", "soft", "", SoftFailure)
                        EXCEPT !.llm = Some(llm), !.all_tools = all_tools]
         /\ tools' = tools_after
         /\ UNCHANGED <<system_prompt, file_paths, docs, rag_params, agent>>
    ELSE LET built == LoadAgent(all_tools, llm, system_prompt,
                                [vector_index |-> index, rag_params |-> rp])
         IN
         IF ~built.ok
         THEN /\ last' = [Raised("create_agent", "ValueError: Must pass in vector index")
                             EXCEPT !.llm = Some(llm), !.all_tools = all_tools]
              /\ tools' = tools_after
              /\ UNCHANGED <<system_prompt, file_paths, docs, rag_params, agent>>
         ELSE /\ agent' = Some(built.v)
              /\ tools' = tools_after
              /\ last' = [called EXCEPT !.llm = Some(llm), !.all_tools = all_tools]
              /\ UNCHANGED <<system_prompt, file_paths, docs, rag_params>>

-----------------------------------------------------------------------------
(* The hosting of the builder: load_meta_agent_and_tools *)

RAG_BUILDER_SYS_STR == "You are helping to construct an agent given a user-specified task."

\* FunctionTool.from_defaults(fn=fn), in the shape of the other tools
FunctionTool(fn) == [name |-> fn, query_engine |-> None]

\* fn_tools: add_web_tool is commented out of the list
FnTools ==
    <<FunctionTool("create_system_prompt"), FunctionTool("load_data"),
      FunctionTool("get_rag_params"), FunctionTool("set_rag_params"),
      FunctionTool("create_agent")>>

\* the pair load_meta_agent_and_tools returns; the builder is named by the
\* number of its construction
MetaAgentAndBuilder(builder_agent, n) == [builder_agent |-> builder_agent, agent_builder |-> n]

\* load_meta_agent_and_tools() called by session s.  st.cache_resource keeps
\* the value the function returned in one place for the whole process: a
\* call finds it whichever session made the first call, and the body runs
\* only while nothing is kept.  A call that raises keeps nothing.  The
\* builder the body constructs starts with a ParamCache() of its own.
LoadMetaAgentAndTools(s) ==
    LET called == Call("load_meta_agent_and_tools", "ok", "", "")
        built  == LoadAgent(FnTools, builder_llm, Some(RAG_BUILDER_SYS_STR), <<>>)
    IN
    /\ caller' = s
    /\ UNCHANGED builder_llm
    /\ IF memo # None
       THEN /\ held' = [held EXCEPT ![s] = memo]
            /\ last' = called
            /\ UNCHANGED <<memo, created>>
            /\ UNCHANGED cache
       ELSE /\ created < MaxConstructions
            /\ created' = created + 1
            /\ IF ~built.ok
               THEN /\ last' = Raised("load_meta_agent_and_tools",
                                      "ValueError: Must pass in vector index")
                    /\ UNCHANGED <<memo, held>>
                    /\ UNCHANGED cache
               ELSE /\ memo' = Some(MetaAgentAndBuilder(built.v, created + 1))
                    /\ held' = [held EXCEPT ![s] = memo']
                    /\ last' = called
                    /\ system_prompt' = None
                    /\ file_paths' = <<>>
                    /\ docs' = <<>>
                    /\ tools' = <<>>
                    /\ rag_params' = RAGParamsDefaults
                    /\ agent' = None

\* an operation the meta agent of session s calls on the builder the
\* session holds
Through(s, operation) ==
    /\ held[s] # None
    /\ operation
    /\ caller' = s
    /\ UNCHANGED <<builder_llm, memo, held, created>>

-----------------------------------------------------------------------------
(* The inputs the operations are called with *)

Tasks == {"answer questions about contracts"}

Prompts == {"P1", "P2"}

LLMDescriptors ==
    {DefaultLLM,
     <<"text-davinci-003">>,
     <<"openai", ":", "gpt-4">>,
     <<"anthropic", ":", "gpt-4">>,
     <<"replicate", ":", "meta/llama-2", ":", "v1">>,
     <<"local", ":", "model.gguf">>,
     <<"foo", ":", "bar">>}

UnknownKeys == {"unknownKey"}

UpdateKeys == Fields \cup UnknownKeys

ValuesFor(k) ==
    CASE k = "include_summarization" -> {BoolV(TRUE), BoolV(FALSE)}
      [] k = "top_k"       -> {IntV(5), IntV(0), StrV(<<"5">>), StrV(<<"abc">>)}
      [] k = "chunk_size"  -> {IntV(512), IntV(-1)}
      [] k = "embed_model" -> {StrV(<<"local">>), StrV(DefaultEmbedModel)}
      [] k = "llm"         -> {StrV(DefaultLLM), StrV(<<"openai", ":", "gpt-4">>)}
      [] OTHER             -> {IntV(1)}

\* the update maps with exactly the keys K
RECURSIVE OverridesOn(_)
OverridesOn(K) ==
    IF K = {} THEN {<<>>}
    ELSE LET k == CHOOSE x \in K : TRUE IN
         {(k :> v) @@ f : v \in ValuesFor(k), f \in OverridesOn(K \ {k})}

\* the update maps of at most MaxOverrides keys
AllOverrides ==
    UNION {OverridesOn(K) : K \in {X \in SUBSET UpdateKeys : Cardinality(X) <= MaxOverrides}}

\* the update maps the agent-assembly behaviours use: every descriptor, the
\* summarization toggle, an unknown key and a value that fails validation
AssemblyOverrides ==
    {"llm" :> StrV(d) : d \in LLMDescriptors} \cup OverridesOn({"include_summarization"})
    \cup OverridesOn(UnknownKeys) \cup {"top_k" :> StrV(<<"abc">>)}

\* the update maps the loading behaviours use
LoadingOverrides == {"include_summarization" :> BoolV(TRUE), "top_k" :> IntV(5)}

ExternalOutcomes == {"ok", "embed_error", "index_error"}

-----------------------------------------------------------------------------
(* Specifications *)

\* the facade with the inputs that exercise agent assembly
Next ==
    \/ \E task \in Tasks, chat_ok \in BOOLEAN, text \in Prompts :
          Direct(CreateSystemPrompt(task, chat_ok, text))
    \/ \E file_names \in {None, Some(<<"a.txt">>)}, urls \in {None, Some(<<"http://x">>)},
          load_ok \in BOOLEAN :
          Direct(LoadData(file_names, urls, load_ok))
    \/ \E env_ok \in BOOLEAN : Direct(AddWebTool(env_ok))
    \/ Direct(GetRagParams)
    \/ \E overrides \in AssemblyOverrides : Direct(SetRagParams(overrides))
    \/ \E ext \in ExternalOutcomes : Direct(CreateAgent(ext))

Spec == Init /\ [][Next]_vars

\* the parameter operations with every update map
NextParams ==
    \/ Direct(GetRagParams)
    \/ \E overrides \in AllOverrides : Direct(SetRagParams(overrides))

SpecParams == Init /\ [][NextParams]_vars

\* the facade with the inputs that exercise loading
NextLoad ==
    \/ \E task \in Tasks, chat_ok \in BOOLEAN, text \in {"P1"} :
          Direct(CreateSystemPrompt(task, chat_ok, text))
    \/ \E file_names \in {None, Some(<<>>), Some(<<"a.txt">>), Some(<<"b.pdf">>),
                          Some(<<"a.txt", "b.pdf">>)},
          urls \in {None, Some(<<>>), Some(<<"http://x">>)},
          load_ok \in BOOLEAN :
          Direct(LoadData(file_names, urls, load_ok))
    \/ \E env_ok \in BOOLEAN : Direct(AddWebTool(env_ok))
    \/ Direct(GetRagParams)
    \/ \E overrides \in LoadingOverrides : Direct(SetRagParams(overrides))
    \/ \E ext \in ExternalOutcomes : Direct(CreateAgent(ext))

SpecLoad == Init /\ [][NextLoad]_vars

\* the update maps the building behaviours use
BuildingOverrides ==
    {"top_k" :> IntV(5), "chunk_size" :> IntV(512),
     "include_summarization" :> BoolV(TRUE), "include_summarization" :> BoolV(FALSE),
     "llm" :> StrV(<<"anthropic", ":", "gpt-4">>), "llm" :> StrV(DefaultLLM)}

\* what the caller writes into a mapping it got back
CallerWrites == {<<"top_k", IntV(9)>>, <<"note", StrV(<<"mine">>)>>}

\* the facade with the inputs that exercise the tool list and the
\* retrieval configuration, and a caller that edits what get_rag_params
\* returned
NextBuild ==
    \/ \E task \in Tasks, chat_ok \in BOOLEAN, text \in {"P1"} :
          Direct(CreateSystemPrompt(task, chat_ok, text))
    \/ \E file_names \in {Some(<<"a.txt">>), Some(<<"b.pdf">>)}, urls \in {None},
          load_ok \in BOOLEAN :
          Direct(LoadData(file_names, urls, load_ok))
    \/ \E env_ok \in BOOLEAN : Direct(AddWebTool(env_ok))
    \/ Direct(GetRagParams)
    \/ \E w \in CallerWrites : Direct(CallerMutation(w[1], w[2]))
    \/ \E overrides \in BuildingOverrides : Direct(SetRagParams(overrides))
    \/ \E ext \in ExternalOutcomes : Direct(CreateAgent(ext))

SpecBuild == Init /\ [][NextBuild]_vars

\* the values BUILDER_LLM can have
BuilderLLMs ==
    {LLM("OpenAI", DefaultLLM), LLM("OpenAI", <<"text-davinci-003">>),
     LLM("Anthropic", <<"claude-2">>), LLM("Anthropic", <<"gpt-4">>)}

\* the update maps the hosted behaviours use
HostedOverrides == {"top_k" :> IntV(5), "llm" :> StrV(<<"anthropic", ":", "gpt-4">>)}

\* a process that starts with nothing memoized
InitHosted ==
    /\ EmptyCache
    /\ last = Call("init", "ok", "", "")
    /\ builder_llm \in BuilderLLMs
    /\ NothingHosted

\* user sessions that obtain the builder from load_meta_agent_and_tools and
\* whose meta agents call the operations given to them as tools
NextSessions ==
    \/ \E s \in Sessions : LoadMetaAgentAndTools(s)
    \/ \E s \in Sessions, task \in Tasks, chat_ok \in BOOLEAN, text \in Prompts :
          Through(s, CreateSystemPrompt(task, chat_ok, text))
    \/ \E s \in Sessions, file_names \in {None, Some(<<"a.txt">>)}, urls \in {None},
          load_ok \in BOOLEAN :
          Through(s, LoadData(file_names, urls, load_ok))
    \/ \E s \in Sessions : Through(s, GetRagParams)
    \/ \E s \in Sessions, overrides \in HostedOverrides : Through(s, SetRagParams(overrides))
    \/ \E s \in Sessions, ext \in ExternalOutcomes : Through(s, CreateAgent(ext))

SpecSessions == InitHosted /\ [][NextSessions]_vars

-----------------------------------------------------------------------------
(* Properties of the parameter operations (checked under SpecParams) *)

\* the step is a call of op
Called(op) == last'.op = op

\* m with exactly the keys of overrides replaced by the given values
Overridden(m, overrides) ==
    [k \in DOMAIN m |-> IF k \in DOMAIN overrides THEN overrides[k] ELSE m[k]]

\* m with exactly the keys of overrides replaced by the validated values
OverriddenValidated(m, overrides) ==
    [k \in DOMAIN m |->
        IF k \in DOMAIN overrides THEN FieldValidator(k, overrides[k]).v ELSE m[k]]

FieldType(k) ==
    CASE k = "include_summarization" -> "bool"
      [] k \in {"top_k", "chunk_size"} -> "int"
      [] OTHER -> "str"

\* C1 as stated: for every update map with recognized keys only,
\* set_rag_params followed by get_rag_params returns the previous mapping
\* with exactly the given keys replaced by the given values.
C1_AsStated ==
    [][Called("set_rag_params") /\ DOMAIN last'.overrides \subseteq Fields
        => ParamsDict(rag_params') = Overridden(ParamsDict(rag_params), last'.overrides)]_vars

\* C1, amended: for every update map with recognized keys only, if every
\* given value passes its field's validation the call succeeds and
\* get_rag_params then returns the previous mapping with exactly the given
\* keys replaced by the validated values (the given value itself when it has
\* the field's declared type) and every other key unchanged; if some value
\* fails validation the call raises and the mapping is unchanged.
\* get_rag_params returns the mapping of the current parameters.
C1_MergeOverPrevious ==
    [][/\ Called("set_rag_params") /\ DOMAIN last'.overrides \subseteq Fields
          => LET ov == last'.overrides IN
             IF \A k \in DOMAIN ov : FieldValidator(k, ov[k]).ok
             THEN /\ last'.status = "ok"
                  /\ ParamsDict(rag_params') = OverriddenValidated(ParamsDict(rag_params), ov)
                  /\ \A k \in DOMAIN ov :
                        ov[k].t = FieldType(k) => ParamsDict(rag_params')[k] = ov[k]
             ELSE /\ last'.status = "raised"
                  /\ rag_params' = rag_params
       /\ Called("get_rag_params")
          => last'.mapping = ParamsDict(rag_params) /\ rag_params' = rag_params]_vars

\* a partial update has kept a field that an earlier update had moved away
\* from its default
C1_Witness ==
    /\ last.op = "set_rag_params" /\ last.status = "ok"
    /\ DOMAIN last.overrides = {"top_k"}
    /\ rag_params.top_k = 5
    /\ rag_params.chunk_size # DefaultChunkSize
    /\ rag_params.llm # DefaultLLM

\* C2 as stated: set_rag_params with a key outside the schema raises, and
\* the parameters after the call equal the parameters before it.
C2_UnknownKeyRaises ==
    [][Called("set_rag_params") /\ ~(DOMAIN last'.overrides \subseteq Fields)
        => last'.status = "raised" /\ rag_params' = rag_params]_vars

\* C8 as stated: the parameters are always fully populated, with top_k and
\* chunk_size greater than zero.
C8_PositiveSizes ==
    /\ DOMAIN rag_params = Fields
    /\ rag_params.top_k > 0
    /\ rag_params.chunk_size > 0

-----------------------------------------------------------------------------
(* Properties of agent assembly (checked under Spec) *)

\* the provider prefix of a descriptor: the text before its first colon
HasPrefix(d) == \E n \in 1..Len(d) : d[n] = ":"

PrefixOf(d) == SubSeq(d, 1, (CHOOSE n \in 1..Len(d) : d[n] = ":" /\ \A m \in 1..(n - 1) : d[m] # ":") - 1)

KnownPrefixes == {<<"local">>, <<"openai">>, <<"anthropic">>, <<"replicate">>}

\* the external calls of the step's create_agent call all returned
ExternalsReturned == last'.exc # "ExternalError"

\* C3 as stated: whenever the system prompt is unset, create_agent returns
\* the soft-failure string instead of raising, and leaves agent unset
\* (external services taken to answer).
C3_SoftFailureWheneverPromptUnset ==
    [][Called("create_agent") /\ system_prompt = None /\ ExternalsReturned
        => last'.status = "soft" /\ last'.ret = SoftFailure /\ agent' = None]_vars

\* the model identifier on which the capability lookup is keyed
ModelOf(resolved_llm) == resolved_llm.model

\* C4 as stated: the tool-calling agent is built iff the capability lookup
\* on the resolved model's identifier reports it capable, whatever the
\* provider prefix.
C4_AsStated ==
    [][Called("create_agent") /\ last'.status = "ok"
        => (agent'[1].cls = "OpenAIAgent"
              <=> IsFunctionCallingModel(ModelOf(last'.llm[1])))]_vars

\* the descriptor names a model of the OpenAI provider (no prefix, or the
\* prefix openai) whose identifier the capability lookup reports capable
OpenAIToolCalling(d) ==
    \/ ~HasPrefix(d) /\ IsFunctionCallingModel(d)
    \/ /\ HasPrefix(d) /\ PrefixOf(d) = <<"openai">>
       /\ IsFunctionCallingModel(Split(d)[2])

\* C4, amended: the strategy of a create_agent call is determined by the
\* language-model descriptor alone, independently of the system prompt, the
\* documents and the extra tools: the tool-calling agent is built iff the
\* descriptor resolves to a model of the OpenAI provider (no prefix, or the
\* prefix openai) whose identifier the capability lookup reports capable,
\* and the retrieval-context conversational agent is built otherwise.
C4_StrategyByProviderAndModel ==
    [][Called("create_agent") /\ last'.status = "ok"
        => /\ agent' # None
           /\ agent'[1].cls \in {"OpenAIAgent", "CondensePlusContextChatEngine"}
           /\ agent'[1].cls = "OpenAIAgent" <=> OpenAIToolCalling(rag_params.llm)]_vars

\* an agent built for a non-OpenAI provider whose model identifier the
\* capability lookup reports capable
C4_Witness ==
    /\ last.op = "create_agent" /\ last.status = "ok"
    /\ agent # None /\ agent[1].cls = "CondensePlusContextChatEngine"
    /\ last.llm[1].cls = "Anthropic"
    /\ IsFunctionCallingModel(last.llm[1].model)
    /\ system_prompt # None /\ tools # <<>> /\ docs # <<>>

Contains(seq, x) == \E n \in 1..Len(seq) : seq[n] = x

C9_AgentOnlyBySuccessfulCreate ==
    /\ [](agent # None => system_prompt # None)
    /\ [][agent' # agent => Called("create_agent") /\ last'.status = "ok"]_vars

\* an agent is set and a later soft-free operation has left it in place
C9_Witness ==
    /\ agent # None
    /\ last.op \in {"set_rag_params", "load_data", "create_system_prompt"}
    /\ last.status = "ok"

\* C10: resolution succeeds iff the descriptor has no prefix (default OpenAI
\* provider, the bare name as model) or a prefix among local, openai,
\* anthropic, replicate; any other prefix raises "not recognized", and a
\* create_agent call with it does not set agent.
C10_ResolutionByPrefix ==
    /\ [](LET d == rag_params.llm IN
          /\ ResolveLLM(d).ok <=> (~HasPrefix(d) \/ PrefixOf(d) \in KnownPrefixes)
          /\ ~HasPrefix(d) => ResolveLLM(d).v = LLM("OpenAI", d))
    /\ [][Called("create_agent") /\ ExternalsReturned
            => /\ last'.exc = "ValueError: LLM not recognized."
                    <=> HasPrefix(rag_params.llm) /\ PrefixOf(rag_params.llm) \notin KnownPrefixes
               /\ last'.exc = "ValueError: LLM not recognized."
                    => last'.status = "raised" /\ agent' = agent]_vars

\* create_agent has raised "not recognized" for a descriptor with an
\* unknown prefix, with a system prompt set
C10_Witness ==
    /\ last.op = "create_agent" /\ last.exc = "ValueError: LLM not recognized."
    /\ rag_params.llm = <<"foo", ":", "bar">>
    /\ system_prompt # None
    /\ agent = None

-----------------------------------------------------------------------------
(* Properties of loading (checked under SpecLoad) *)

ArgumentErrors == {MustSpecifyEither, MustSpecifyOnlyOne}

\* C6: load_data raises on its arguments exactly when both or neither of
\* file_names and urls are given (then no loader is invoked); when exactly
\* one is given, exactly the matching loader is invoked and the call does
\* not fail on argument grounds.
C6_ExactlyOneSource ==
    last.op = "load_data"
    => LET both    == last.file_names # None /\ last.urls # None
           neither == last.file_names = None /\ last.urls = None
       IN
       /\ last.exc \in ArgumentErrors <=> (both \/ neither)
       /\ last.exc \in ArgumentErrors => last.status = "raised" /\ last.loader = "none"
       /\ ~(both \/ neither)
            => /\ last.loader = (IF last.file_names # None THEN "SimpleDirectoryReader"
                                 ELSE "SimpleWebPageReader")
               /\ last.status = "ok" \/ last.exc = "ExternalError"

\* a URL load went through the web page reader, and calls with both and
\* with neither argument are told apart from it
C6_Witness ==
    /\ last.op = "load_data" /\ last.status = "ok"
    /\ last.file_names = None /\ last.urls = Some(<<"http://x">>)
    /\ last.loader = "SimpleWebPageReader"

\* C7: documents and sourceFiles are those of the most recent successful
\* load_data call, both of the same call and nothing of earlier loads, and
\* empty before the first successful load: a successful load stores its own
\* source list and the documents loaded from it, every other step leaves
\* both alone.
C7_LastLoadOnly ==
    /\ docs = <<>> /\ file_paths = <<>>
    /\ [](docs = LoadSources(file_paths))
    /\ [][IF Called("load_data") /\ last'.status = "ok"
          THEN LET sources == IF last'.file_names # None THEN last'.file_names[1]
                              ELSE last'.urls[1]
               IN file_paths' = sources /\ docs' = LoadSources(sources)
          ELSE file_paths' = file_paths /\ docs' = docs]_vars

\* a URL load has replaced an earlier file load: the agent built in between
\* still indexes the file's documents, the cache holds the URL's only
C7_Witness ==
    /\ last.op = "load_data" /\ last.status = "ok" /\ last.urls = Some(<<"http://x">>)
    /\ agent # None
    /\ agent[1].tools[1].query_engine[1].index.docs = LoadSources(<<"a.txt", "b.pdf">>)
    /\ file_paths = <<"http://x">>
    /\ docs = LoadSources(<<"http://x">>)

-----------------------------------------------------------------------------
(* get_rag_params *)

\* C11: get_rag_params leaves every cache field unchanged and returns a
\* mapping with exactly the five schema keys holding the current values;
\* what the caller later writes into that mapping does not change the
\* cache's parameters.
C11_PureRead ==
    [][/\ Called("get_rag_params")
            => /\ cache' = cache
               /\ last'.status = "ok"
               /\ DOMAIN last'.mapping = Fields
               /\ last'.mapping.include_summarization = BoolV(rag_params.include_summarization)
               /\ last'.mapping.top_k = IntV(rag_params.top_k)
               /\ last'.mapping.chunk_size = IntV(rag_params.chunk_size)
               /\ last'.mapping.embed_model = StrV(rag_params.embed_model)
               /\ last'.mapping.llm = StrV(rag_params.llm)
       /\ Called("caller_mutation") => rag_params' = rag_params]_vars

\* the caller has overwritten top_k in the mapping it got back, and the
\* cache still holds the value set_rag_params stored
C11_Witness ==
    /\ last.op = "caller_mutation"
    /\ last.mapping.top_k = IntV(9)
    /\ rag_params.top_k = 5

-----------------------------------------------------------------------------
(* The tool list of create_agent *)

\* the part of seq from position n on
From(seq, n) == SubSeq(seq, n, Len(seq))

\* C12: a successful create_agent assembles the retrieval tool first, then
\* the summarization tool iff include_summarization, then every extra tool
\* in cache order; the retrieval tool, and the retriever of the
\* retrieval-context path, carry the top_k and chunk_size of the cache's
\* parameters over the cache's documents, which only a successful
\* set_rag_params and a successful load_data change.
C12_ToolListFromCache ==
    [][/\ Called("create_agent") /\ last'.status = "ok"
            => LET t  == last'.all_tools
                   qe == t[1].query_engine[1]
               IN
               /\ Len(t) >= 1
               /\ t[1].name = "vector_tool"
               /\ qe.similarity_top_k = Some(rag_params.top_k)
               /\ qe.index.chunk_size = rag_params.chunk_size
               /\ qe.index.docs = docs
               /\ IF rag_params.include_summarization
                  THEN /\ Len(t) >= 2
                       /\ t[2].name = "summary_tool"
                       /\ t[2].query_engine[1].index.docs = docs
                       /\ From(t, 3) = tools
                  ELSE From(t, 2) = tools
               /\ agent'[1].cls = "OpenAIAgent" => agent'[1].tools = t
               /\ agent'[1].cls = "CondensePlusContextChatEngine"
                    => /\ agent'[1].retriever[1].similarity_top_k = Some(rag_params.top_k)
                       /\ agent'[1].retriever[1].index.chunk_size = rag_params.chunk_size
                       /\ agent'[1].retriever[1].index.docs = docs
       /\ rag_params' # rag_params => Called("set_rag_params") /\ last'.status = "ok"
       /\ docs' # docs => /\ Called("load_data") /\ last'.status = "ok"
                          /\ docs' = LoadSources(IF last'.file_names # None
                                                  THEN last'.file_names[1]
                                                  ELSE last'.urls[1])]_vars

\* an agent with summarization and web tools, built after top_k, chunk_size
\* and the documents were changed
C12_Witness ==
    /\ last.op = "create_agent" /\ last.status = "ok"
    /\ rag_params.top_k = 5 /\ rag_params.chunk_size = 512
    /\ rag_params.include_summarization
    /\ docs # <<>> /\ tools # <<>>
    /\ Len(last.all_tools) = 2 + Len(tools)
    /\ agent[1].cls = "OpenAIAgent"

-----------------------------------------------------------------------------
(* The extra tools of the cache *)

IsPrefixOf(a, b) == Len(a) <= Len(b) /\ SubSeq(b, 1, Len(a)) = a

-----------------------------------------------------------------------------
(* The system prompt of the cache *)

\* C14: the cache's system prompt is the text the external model returned
\* to the most recent successful create_system_prompt: such a call stores
\* its text over whatever was there and nothing else changes the field; a
\* prompt once set is never unset, and create_agent never returns the
\* soft-failure string while a prompt is set.
C14_PromptOfLastSuccessfulCall ==
    [][/\ Called("create_system_prompt") /\ last'.status = "ok"
            => last'.text # None /\ system_prompt' = last'.text
       /\ system_prompt' # system_prompt
            => Called("create_system_prompt") /\ last'.status = "ok"
       /\ system_prompt # None => system_prompt' # None
       /\ Called("create_agent") /\ system_prompt # None => last'.status # "soft"]_vars

\* a second successful create_system_prompt has replaced the prompt an agent
\* was built with
C14_Witness ==
    /\ last.op = "create_system_prompt" /\ last.status = "ok"
    /\ system_prompt = Some("P2")
    /\ agent # None /\ agent[1].system_prompt = Some("P1")

-----------------------------------------------------------------------------
(* The model identifier of a prefixed descriptor *)

HostedProviders == {<<"openai">>, <<"anthropic">>, <<"replicate">>}

\* C16: for a descriptor "<provider>:<model>" with provider openai,
\* anthropic or replicate, the model identifier the back-end is built with
\* is the whole text after the provider prefix, also when that text holds
\* a ':' itself.
C16_WholeModelAfterPrefix ==
    [][(/\ Called("create_agent") /\ last'.llm # None
        /\ HasPrefix(rag_params.llm) /\ PrefixOf(rag_params.llm) \in HostedProviders)
            => ModelOf(last'.llm[1]) = AfterFirstColon(rag_params.llm)]_vars

-----------------------------------------------------------------------------
(* Operations that end in an error *)

\* C17: an operation that raises leaves every cache field as it was before
\* the call: the system prompt when the external model call fails, the
\* documents and paths when load_data fails on its arguments or in the
\* reader, the parameters when validation fails, the agent when
\* create_agent fails.
C17_ErrorLeavesCache ==
    [][last'.status = "raised" => cache' = cache]_vars

\* the reader has failed on a builder that already holds documents, a
\* prompt and an agent
C17_Witness ==
    /\ last.op = "load_data" /\ last.status = "raised" /\ last.exc = "ExternalError"
    /\ last.file_names # None /\ last.file_names # Some(file_paths)
    /\ docs # <<>> /\ system_prompt # None /\ agent # None

-----------------------------------------------------------------------------
(* The vector index the retrieval-context path needs *)

PreconditionViolated == "ValueError: Must pass in vector index"

\* C15: on the retrieval-context path assembly fails with the
\* precondition error exactly when no vector index is among its inputs:
\* create_agent hands over the index it has built, so none of its calls
\* ends in that error and those that reach assembly on that path succeed;
\* load_meta_agent_and_tools hands none over, so its construction ends in
\* that error whenever the builder model is not tool-calling-capable, and
\* only on that path.
C15_IndexRequiredOnRetrievalPath ==
    [][/\ Called("create_agent")
            => /\ last'.exc # PreconditionViolated
               /\ (/\ last'.llm # None /\ ~UsesOpenAIAgent(last'.llm[1])
                   /\ last'.exc # "ExternalError" /\ system_prompt # None)
                     => /\ last'.status = "ok"
                        /\ agent'[1].cls = "CondensePlusContextChatEngine"
       /\ Called("load_meta_agent_and_tools")
            => /\ ~IsFunctionCallingModel(builder_llm.model)
                     => last'.status = "raised" /\ last'.exc = PreconditionViolated
               /\ last'.status = "raised"
                     => /\ last'.exc = PreconditionViolated
                        /\ ~UsesOpenAIAgent(builder_llm)
                        /\ memo' = None /\ held' = held]_vars

\* the construction of the meta agent has failed for a builder model that
\* is not tool-calling-capable
C15_Witness ==
    /\ last.op = "load_meta_agent_and_tools"
    /\ last.status = "raised" /\ last.exc = PreconditionViolated
    /\ ~IsFunctionCallingModel(builder_llm.model)
    /\ memo = None /\ created = 1

-----------------------------------------------------------------------------
(* One cache per session *)

\* the builder session s holds
BuilderOf(s) == held[s][1].agent_builder

\* C18: sessions that obtain their builder from load_meta_agent_and_tools
\* own independent caches: a change one session's call makes to the cache
\* of its builder is never a change to the cache of the builder another
\* session holds; a session that calls again gets the builder it already
\* holds, with its cache as it was.
C18_OneCachePerSession ==
    [][/\ \A s, t \in Sessions :
             (s # t /\ caller' = s /\ cache' # cache /\ held[s] # None /\ held[t] # None)
                 => BuilderOf(t) # BuilderOf(s)
       /\ \A s \in Sessions :
             (Called("load_meta_agent_and_tools") /\ caller' = s /\ held[s] # None)
                 => held'[s] = held[s] /\ cache' = cache]_vars

=============================================================================
